---------------------------- MODULE Spec2Model ----------------------------
(***************************************************************************)
(* A model of the Jimaku subtitle provider                                 *)
(* (custom_libs/subliminal_patch/providers/jimaku.py).                     *)
(*                                                                         *)
(* Text is a sequence of one-character strings, so that lower(),           *)
(* endswith(), "in" and the f-string formatting of the source are          *)
(* computed and not assumed.  A Python None is the empty tuple and a       *)
(* present optional value x is the one-element tuple <<x>>.                *)
(***************************************************************************)
EXTENDS Integers, Sequences, FiniteSets, TLC

VARIABLES
    enable_archives,          \* JimakuProvider.enable_archives
    enable_ai_subs,           \* JimakuProvider.enable_ai_subs
    episode_number_override,  \* JimakuProvider.episode_number_override
    cache,                    \* the store of @cache on _get_jimaku_response
    pc,                       \* where the provider's caller stands
    call,                     \* the locals of the running _query
    data,                     \* the local "data" of the running _query
    fetch,                    \* the running (or last) _get_jimaku_response
    requests,                 \* session.get calls of the current top-level call
    last,                     \* how the last top-level call ended
    contents,                 \* the content attribute of the listed subtitles
    dl,                       \* the last download_subtitle call
    calls,                    \* top-level calls made so far
    history,                  \* every (path, value) a fetch has returned
    fetches,                  \* _get_jimaku_response calls of the current
                              \* top-level call, answered from the store or not
    failed,                   \* every path whose fetch has raised
    match                     \* a JimakuSubtitle.get_matches call

vars == <<enable_archives, enable_ai_subs, episode_number_override, cache, pc,
          call, data, fetch, requests, last, contents, dl, calls, history,
          fetches, failed, match>>

config == <<enable_archives, enable_ai_subs, episode_number_override>>

----------------------------------------------------------------------------
(* Bounds of the model *)

MaxCalls == 2
MaxFiles == 2

----------------------------------------------------------------------------
(* Python values *)

None == <<>>
Some(x) == <<x>>
IsNone(o) == o = <<>>
Val(o) == o[1]

Upper == <<"A","B","C","D","E","F","G","H","I","J","K","L","M",
           "N","O","P","Q","R","S","T","U","V","W","X","Y","Z">>
Lower == <<"a","b","c","d","e","f","g","h","i","j","k","l","m",
           "n","o","p","q","r","s","t","u","v","w","x","y","z">>
Digits == <<"0","1","2","3","4","5","6","7","8","9">>

\* str.lower() on one character
lower_char(c) ==
    IF \E i \in 1..26 : Upper[i] = c
    THEN Lower[CHOOSE i \in 1..26 : Upper[i] = c]
    ELSE c

\* str.lower()
lower(s) == [i \in 1..Len(s) |-> lower_char(s[i])]

\* str.endswith(suffix)
endswith(s, suf) ==
    /\ Len(suf) <= Len(s)
    /\ SubSeq(s, Len(s) - Len(suf) + 1, Len(s)) = suf

\* str.endswith(tuple of suffixes)
endswith_any(s, sufs) == \E suf \in sufs : endswith(s, suf)

\* "sub in s" on strings
contains(s, sub) ==
    \E i \in 1..(Len(s) - Len(sub) + 1) : SubSeq(s, i, i + Len(sub) - 1) = sub

\* str(n) for an integer n >= 0
RECURSIVE str_int(_)
str_int(n) ==
    IF n < 10 THEN <<Digits[n + 1]>>
    ELSE str_int(n \div 10) \o <<Digits[(n % 10) + 1]>>

NoneText == <<"N","o","n","e">>

\* str(x) of an optional integer
str_opt_int(o) == IF IsNone(o) THEN NoneText ELSE str_int(Val(o))

\* str(x) of an optional text
str_opt_text(o) == IF IsNone(o) THEN NoneText ELSE Val(o)

\* urllib.parse.quote_plus on the characters the names use
quote_plus(s) == [i \in 1..Len(s) |-> IF s[i] = " " THEN "+" ELSE s[i]]

----------------------------------------------------------------------------
(* Class attributes of JimakuProvider *)

api_ratelimit_max_delay_seconds == 5
api_ratelimit_backoff_limit == 3
corrupted_file_size_threshold == 500

Ext7z  == <<".","7","z">>
ExtZip == <<".","z","i","p">>
ExtRar == <<".","r","a","r">>
ExtSrt == <<".","s","r","t">>
AiMarker == <<"w","h","i","s","p","e","r","a","i">>

----------------------------------------------------------------------------
(* The inputs: videos, catalog entries, listed files, server responses *)

Episode(series, season, episode, anidb_no, anilist, group) ==
    [type |-> "Episode", name |-> series, season |-> season,
     episode |-> episode, series_anidb_episode_no |-> anidb_no,
     anilist_id |-> anilist, release_group |-> group]

\* a Movie has no season, episode or series_anidb_episode_no attribute
Movie(title, anilist, group) ==
    [type |-> "Movie", name |-> title,
     anilist_id |-> anilist, release_group |-> group]

\* isinstance(video, Episode)
is_episode(video) == video.type = "Episode"

GroupA == <<"G","_","1">>

Videos ==
    { Episode(<<"A","b">>, 2, 5, 17, Some(1234), Some(GroupA)),
      Episode(<<"A","b">>, 1, 5, 17, None, Some(GroupA)),
      Movie(<<"M","o">>, None, None) }

Entry(id, anilist) == [id |-> id, anilist_id |-> anilist]

Entries == { Entry(7, Some(1234)), Entry(8, None), Entry(9, None) }

\* the entries the modelled server answers a search with
ServerEntries == { Entry(7, Some(1234)), Entry(8, None) }

File(name, size) == [name |-> name, url |-> <<"/">> \o name, size |-> size]

AiLower == <<"x","-">> \o AiMarker
AiMixed == <<"W","h","i","s","p","e","r","A","I">>

\* the listed files: every name is the name of one file
Files ==
    { File(<<"a">> \o ExtSrt, Some(500)),
      File(<<"b">> \o ExtSrt, Some(499)),
      File(<<"c">> \o ExtSrt, None),
      File(<<"a">> \o ExtZip, Some(500)),
      File(<<"b">> \o ExtRar, None),
      File(<<"c">> \o ExtZip, Some(499)),
      File(<<"a">> \o Ext7z, Some(500)),
      File(AiMixed \o ExtSrt, Some(500)),
      File(AiLower \o ExtSrt, None),
      File(AiLower \o ExtZip, Some(501)) }

\* every non-empty listing of at most MaxFiles files
Listings == UNION { [1..n -> Files] : n \in 1..MaxFiles }

\* the listings the modelled server answers with
ServerListings ==
    { <<File(<<"a">> \o ExtSrt, Some(500)), File(<<"a">> \o ExtZip, Some(500))>>,
      <<File(<<"a">> \o ExtZip, Some(500)), File(<<"a">> \o Ext7z, Some(500))>>,
      <<File(<<"b">> \o ExtSrt, Some(499))>> }

\* response.json(): a JSON array or a JSON object (its keys)
JsonList(items) == [kind |-> "list", items |-> items]
JsonDict(keys) == [kind |-> "dict", keys |-> keys]
ErrorBody == JsonDict({"error", "code"})

SearchBodies ==
    { JsonList(<<>>), ErrorBody } \cup { JsonList(<<e>>) : e \in ServerEntries }
FilesBodies ==
    { JsonList(<<>>), ErrorBody } \cup { JsonList(l) : l \in ServerListings }

Response(status, reset_after, body) ==
    [status_code |-> status, reset_after |-> reset_after, body |-> body]

\* Response.raise_for_status() raises HTTPError
raises_for_status(status) == status >= 400 /\ status < 600

\* what the server may answer to a request for a path of the given kind
Responses(kind) ==
    LET bodies == IF kind = "search" THEN SearchBodies ELSE FilesBodies
    IN  { Response(s, None, b) : s \in {200, 304}, b \in bodies }
        \cup { Response(s, None, ErrorBody) : s \in {401, 500} }
        \cup { Response(429, r, ErrorBody) : r \in {None, Some(2), Some(10)} }

----------------------------------------------------------------------------
(* JimakuProvider._assemble_jimaku_search_url and the request paths *)

\* media_name of _query
media_name(video) ==
    IF is_episode(video) /\ video.season > 1
    THEN lower(video.name) \o <<" ">> \o str_int(video.season)
    ELSE lower(video.name)

assemble_jimaku_search_url(video, name) ==
    IF ~IsNone(video.anilist_id) /\ Val(video.anilist_id) # 0
    THEN [kind |-> "search", text |-> <<"entries/search?anilist_id=">>
                                       \o str_int(Val(video.anilist_id))]
    ELSE [kind |-> "search", text |-> <<"entries/search?query=">>
                                       \o quote_plus(name)]

\* the file-list path of _query
files_url(video, entry_id, episode_number) ==
    IF is_episode(video)
    THEN [kind |-> "files", text |-> <<"entries/">> \o str_int(entry_id)
              \o <<"/files?episode=">> \o str_int(Val(episode_number))]
    ELSE [kind |-> "files", text |-> <<"entries/">> \o str_int(entry_id)
              \o <<"/files">>]

----------------------------------------------------------------------------
(* JimakuProvider._get_jimaku_response *)

NoFetch ==
    [pc |-> "none", path |-> [kind |-> "none", text |-> <<>>], retry_count |-> 0,
     responses |-> <<>>, sleeps |-> <<>>, outcome |-> "none", result |-> None]

\* a call of the fetcher begins
enter_fetch(path) ==
    [pc |-> "enter", path |-> path, retry_count |-> 0,
     responses |-> <<>>, sleeps |-> <<>>, outcome |-> "none", result |-> None]

\* time.sleep argument on a 429
reset_time(resp) ==
    LET api_reset_time == IF IsNone(resp.reset_after) THEN 5 ELSE Val(resp.reset_after)
    IN  IF api_reset_time > api_ratelimit_max_delay_seconds
        THEN api_ratelimit_max_delay_seconds
        ELSE api_reset_time

\* len(data) == 0
json_empty(body) ==
    IF body.kind = "list" THEN Len(body.items) = 0 ELSE body.keys = {}

\* 'error' in data
json_has_error(body) ==
    IF body.kind = "list" THEN FALSE ELSE "error" \in body.keys

\* handle_response with the transport error caught and turned into None
handle_response_swallowing(resp) ==
    LET slept == IF resp.status_code = 429 THEN <<reset_time(resp)>> ELSE <<>>
    IN  IF resp.status_code # 429 /\ resp.status_code = 401
        THEN [kind |-> "raise", exc |-> "AuthenticationError", value |-> None,
              slept |-> slept]
        ELSE IF raises_for_status(resp.status_code) \/ json_empty(resp.body)
                \/ json_has_error(resp.body)
        THEN [kind |-> "return", exc |-> "none", value |-> None, slept |-> slept]
        ELSE [kind |-> "return", exc |-> "none", value |-> Some(resp.body.items),
              slept |-> slept]

\* handle_response with an 'error' body raised and not turned into None
handle_response_raising_on_error(resp) ==
    LET slept == IF resp.status_code = 429 THEN <<reset_time(resp)>> ELSE <<>>
    IN  IF resp.status_code # 429 /\ resp.status_code = 401
        THEN [kind |-> "raise", exc |-> "AuthenticationError", value |-> None,
              slept |-> slept]
        ELSE IF raises_for_status(resp.status_code)
        THEN [kind |-> "raise", exc |-> "HTTPError", value |-> None, slept |-> slept]
        ELSE IF json_empty(resp.body)
        THEN [kind |-> "return", exc |-> "none", value |-> None, slept |-> slept]
        ELSE IF json_has_error(resp.body)
        THEN [kind |-> "raise", exc |-> "HTTPError", value |-> None, slept |-> slept]
        ELSE [kind |-> "return", exc |-> "none", value |-> Some(resp.body.items),
              slept |-> slept]

\* one pass of the retry loop after session.get answered resp
handle_response(resp) ==
    LET slept == IF resp.status_code = 429 THEN <<reset_time(resp)>> ELSE <<>>
    IN  IF resp.status_code # 429 /\ resp.status_code = 401
        THEN [kind |-> "raise", exc |-> "AuthenticationError", value |-> None,
              slept |-> slept]
        ELSE IF raises_for_status(resp.status_code)
        THEN [kind |-> "raise", exc |-> "HTTPError", value |-> None, slept |-> slept]
        ELSE IF json_empty(resp.body)
        THEN [kind |-> "return", exc |-> "none", value |-> None, slept |-> slept]
        ELSE IF json_has_error(resp.body)
        THEN [kind |-> "return", exc |-> "none", value |-> None, slept |-> slept]
        ELSE [kind |-> "return", exc |-> "none", value |-> Some(resp.body.items),
              slept |-> slept]

\* a store that keeps no None
cache_store_skipping_none(c, path, value) ==
    IF IsNone(value) THEN c ELSE (path :> value) @@ c

\* a store that keeps nothing
cache_store_disabled(c, path, value) == c

\* functools.cache stores the value a call returned
cache_store(c, path, value) == (path :> value) @@ c

\* a store that remembers a raised call as None
cache_after_raise_storing_none(c, path) == (path :> None) @@ c

\* functools.cache stores nothing for a call that raised
cache_after_raise(c, path) == c

\* functools.cache: a stored path is answered without running the body
get_jimaku_response_cached ==
    /\ fetch.pc = "enter"
    /\ fetch.path \in DOMAIN cache
    /\ fetch' = [fetch EXCEPT !.pc = "ret", !.outcome = "returned",
                              !.result = cache[fetch.path]]
    /\ history' = history \cup {[path |-> fetch.path, value |-> cache[fetch.path]]}
    /\ UNCHANGED <<config, cache, pc, call, data, requests, last, contents, dl,
                   calls, fetches, failed, match>>

\* an exception leaves list_subtitles
raised(exc) ==
    /\ pc' = "idle"
    /\ last' = [op |-> "list_subtitles", outcome |-> exc, value |-> None]
    /\ contents' = <<>>

\* a retry loop that goes round again on a 429 and whose bound is off by one
get_jimaku_response_loop_off_by_one ==
    /\ \/ fetch.pc = "enter" /\ fetch.path \notin DOMAIN cache
       \/ fetch.pc = "loop"
    /\ IF fetch.retry_count <= api_ratelimit_backoff_limit
       THEN \E resp \in Responses(fetch.path.kind) :
              LET h == IF resp.status_code = 429
                       THEN [kind |-> "continue", slept |-> <<reset_time(resp)>>]
                       ELSE handle_response(resp)
                  f == [fetch EXCEPT !.retry_count = @ + 1,
                                     !.responses = Append(@, resp),
                                     !.sleeps = @ \o h.slept]
              IN  /\ requests' = Append(requests, fetch.path)
                  /\ CASE h.kind = "raise" ->
                            /\ fetch' = [f EXCEPT !.pc = "raised", !.outcome = h.exc]
                            /\ raised(h.exc)
                            /\ cache' = cache_after_raise(cache, fetch.path)
                            /\ failed' = failed \cup {fetch.path}
                            /\ UNCHANGED history
                       [] h.kind = "return" ->
                            /\ fetch' = [f EXCEPT !.pc = "ret", !.outcome = "returned",
                                                  !.result = h.value]
                            /\ cache' = cache_store(cache, fetch.path, h.value)
                            /\ history' = history \cup
                                 {[path |-> fetch.path, value |-> h.value]}
                            /\ UNCHANGED <<pc, last, contents, failed>>
                       [] OTHER ->
                            /\ fetch' = [f EXCEPT !.pc = "loop"]
                            /\ UNCHANGED <<cache, history, pc, last, contents,
                                           failed>>
       ELSE /\ fetch' = [fetch EXCEPT !.pc = "raised", !.outcome = "APIThrottled"]
            /\ raised("APIThrottled")
            /\ cache' = cache_after_raise(cache, fetch.path)
            /\ failed' = failed \cup {fetch.path}
            /\ UNCHANGED <<history, requests>>
    /\ UNCHANGED <<config, call, data, dl, calls, fetches, match>>

\* the body of _get_jimaku_response: one turn of its while loop, or its exit
get_jimaku_response_loop ==
    /\ \/ fetch.pc = "enter" /\ fetch.path \notin DOMAIN cache
       \/ fetch.pc = "loop"
    /\ IF fetch.retry_count < api_ratelimit_backoff_limit
       THEN \E resp \in Responses(fetch.path.kind) :
              LET h == handle_response(resp)
                  f == [fetch EXCEPT !.retry_count = @ + 1,
                                     !.responses = Append(@, resp),
                                     !.sleeps = @ \o h.slept]
              IN  /\ requests' = Append(requests, fetch.path)
                  /\ CASE h.kind = "raise" ->
                            /\ fetch' = [f EXCEPT !.pc = "raised", !.outcome = h.exc]
                            /\ raised(h.exc)
                            /\ cache' = cache_after_raise(cache, fetch.path)
                            /\ failed' = failed \cup {fetch.path}
                            /\ UNCHANGED history
                       [] h.kind = "return" ->
                            /\ fetch' = [f EXCEPT !.pc = "ret", !.outcome = "returned",
                                                  !.result = h.value]
                            /\ cache' = cache_store(cache, fetch.path, h.value)
                            /\ history' = history \cup
                                 {[path |-> fetch.path, value |-> h.value]}
                            /\ UNCHANGED <<pc, last, contents, failed>>
                       [] OTHER ->
                            /\ fetch' = [f EXCEPT !.pc = "loop"]
                            /\ UNCHANGED <<cache, history, pc, last, contents,
                                           failed>>
       ELSE /\ fetch' = [fetch EXCEPT !.pc = "raised", !.outcome = "APIThrottled"]
            /\ raised("APIThrottled")
            /\ cache' = cache_after_raise(cache, fetch.path)
            /\ failed' = failed \cup {fetch.path}
            /\ UNCHANGED <<history, requests>>
    /\ UNCHANGED <<config, call, data, dl, calls, fetches, match>>

----------------------------------------------------------------------------
(* JimakuProvider._query, lines 165-202: the filter *)

disabled_archives == {ExtZip, ExtRar}

\* the blacklist with the test of line 174 flipped ("!=" for "==")
archive_formats_blacklist_flipped(items, archives) ==
    IF archives THEN {Ext7z}
    ELSE IF \A i \in 1..Len(items) : endswith_any(items[i].name, disabled_archives)
         THEN {Ext7z} \cup disabled_archives
         ELSE {Ext7z}

\* the blacklist without the relaxation of lines 173-175
archive_formats_blacklist_strict(items, archives) ==
    IF archives THEN {Ext7z} ELSE {Ext7z} \cup disabled_archives

\* the blacklist with line 177 assigning ("=" for "+=")
archive_formats_blacklist_assigned(items, archives) ==
    IF archives THEN {Ext7z}
    ELSE IF \A i \in 1..Len(items) : endswith_any(items[i].name, disabled_archives)
         THEN {Ext7z}
         ELSE disabled_archives

\* archive_formats_blacklist after lines 168-177
archive_formats_blacklist(items, archives) ==
    IF archives THEN {Ext7z}
    ELSE IF \A i \in 1..Len(items) : endswith_any(items[i].name, disabled_archives)
         THEN {Ext7z}
         ELSE {Ext7z} \cup disabled_archives

\* the AI check without lower()
skipped_as_ai_case_sensitive(item, ai) == ~ai /\ contains(item.name, AiMarker)

\* the AI check of lines 183-186 discards the item
skipped_as_ai(item, ai) == ~ai /\ contains(lower(item.name), AiMarker)

\* the size check with "<=" for "<"
skipped_as_corrupt_inclusive(item) ==
    LET subtitle_filesize ==
            IF IsNone(item.size) THEN corrupted_file_size_threshold ELSE Val(item.size)
    IN  subtitle_filesize <= corrupted_file_size_threshold

\* the size check of lines 189-192 discards the item
skipped_as_corrupt(item) ==
    LET subtitle_filesize ==
            IF IsNone(item.size) THEN corrupted_file_size_threshold ELSE Val(item.size)
    IN  subtitle_filesize < corrupted_file_size_threshold

\* subtitle_id of line 196
subtitle_id(anilist_id, number, release_group) ==
    str_opt_int(anilist_id) \o <<"_">> \o str_int(number) \o <<"_">>
        \o str_opt_text(release_group)

JimakuSubtitle(video, id, url, filename) ==
    [video |-> video, subtitle_id |-> id, subtitle_url |-> url,
     subtitle_filename |-> filename]

\* number of line 195
id_number(video, episode_number) ==
    IF is_episode(video) THEN Val(episode_number) ELSE 0

\* list_of_subtitles of lines 165-202
filter_subtitles(items, video, anilist_id, episode_number, archives, ai) ==
    LET blacklist == archive_formats_blacklist(items, archives)
        Kept(item) == /\ ~skipped_as_ai(item, ai)
                      /\ ~skipped_as_corrupt(item)
                      /\ ~endswith_any(item.name, blacklist)
        kept == SelectSeq(items, Kept)
    IN  [i \in 1..Len(kept) |->
            JimakuSubtitle(video,
                           subtitle_id(anilist_id, id_number(video, episode_number),
                                       video.release_group),
                           kept[i].url, kept[i].name)]

----------------------------------------------------------------------------
(* JimakuProvider.list_subtitles and _query *)

NoCall ==
    [video |-> Movie(<<>>, None, None), entry_id |-> 0, anilist_id |-> None,
     episode_number |-> None, retry_count |-> 0]

\* "if not x" on an optional list
falsy(o) == IsNone(o) \/ Len(Val(o)) = 0

\* list_subtitles without its "if not subtitles" guard
list_subtitles_result_unguarded(subtitles) == subtitles

\* what list_subtitles returns for the value of _query (lines 206-210)
list_subtitles_result(subtitles) ==
    IF falsy(subtitles) THEN Some(<<>>) ELSE Some(Val(subtitles))

\* _query returns subtitles (None or a list) and list_subtitles returns
returned(subtitles) ==
    LET result == list_subtitles_result(subtitles)
    IN  /\ pc' = "idle"
        /\ last' = [op |-> "list_subtitles", outcome |-> "returned", value |-> result]
        /\ contents' = IF IsNone(result) THEN <<>>
                       ELSE [i \in 1..Len(Val(result)) |-> None]

\* list_subtitles is called: _query up to its search fetch (lines 116-129)
list_subtitles ==
    /\ pc = "idle"
    /\ calls < MaxCalls
    /\ \E video \in Videos :
         /\ call' = [video |-> video, entry_id |-> 0, anilist_id |-> None,
                     episode_number |->
                         IF is_episode(video) THEN Some(video.episode) ELSE None,
                     retry_count |-> 0]
         /\ fetch' = enter_fetch(assemble_jimaku_search_url(video, media_name(video)))
         /\ fetches' = <<assemble_jimaku_search_url(video, media_name(video))>>
    /\ pc' = "search"
    /\ requests' = <<>>
    /\ data' = <<>>
    /\ calls' = calls + 1
    /\ UNCHANGED <<config, cache, last, contents, dl, history, failed, match>>

\* _query going on to the file list whatever the search answered
query_search_done_unchecked ==
    /\ pc = "search"
    /\ fetch.pc = "ret"
    /\ LET entry == IF falsy(fetch.result) THEN Entry(0, None)
                    ELSE Val(fetch.result)[1]
           url == files_url(call.video, entry.id, call.episode_number)
       IN  /\ call' = [call EXCEPT !.entry_id = entry.id,
                                   !.anilist_id = entry.anilist_id,
                                   !.retry_count = 1]
           /\ fetch' = enter_fetch(url)
           /\ fetches' = Append(fetches, url)
           /\ pc' = "files"
           /\ UNCHANGED <<last, contents>>
    /\ UNCHANGED <<config, cache, data, requests, dl, calls, history, failed, match>>

\* _query from the search answer to the first file-list fetch (lines 130-156)
query_search_done ==
    /\ pc = "search"
    /\ fetch.pc = "ret"
    /\ IF falsy(fetch.result)
       THEN /\ returned(None)
            /\ UNCHANGED <<call, fetch, fetches>>
       ELSE LET entry == Val(fetch.result)[1]
                url == files_url(call.video, entry.id, call.episode_number)
            IN  /\ call' = [call EXCEPT !.entry_id = entry.id,
                                        !.anilist_id = entry.anilist_id,
                                        !.retry_count = 1]
                /\ fetch' = enter_fetch(url)
                /\ fetches' = Append(fetches, url)
                /\ pc' = "files"
                /\ UNCHANGED <<last, contents>>
    /\ UNCHANGED <<config, cache, data, requests, dl, calls, history, failed, match>>

\* the retry condition of line 159
retries_with_offset(no_data, video, override, retry_count) ==
    no_data /\ is_episode(video) /\ override /\ retry_count < 1

\* _query from a file-list answer to the next fetch or to the filter
\* (lines 149-163)
query_files_done ==
    /\ pc = "files"
    /\ fetch.pc = "ret"
    /\ LET no_data == falsy(fetch.result)
           retry == retries_with_offset(no_data, call.video,
                                        episode_number_override, call.retry_count)
           episode_number == IF retry
                             THEN Some(call.video.series_anidb_episode_no)
                             ELSE call.episode_number
       IN  IF no_data /\ ~retry
           THEN /\ returned(None)
                /\ UNCHANGED <<call, fetch, data, fetches>>
           ELSE IF call.retry_count <= 1
           THEN /\ call' = [call EXCEPT !.episode_number = episode_number,
                                        !.retry_count = @ + 1]
                /\ fetch' = enter_fetch(files_url(call.video, call.entry_id,
                                                  episode_number))
                /\ fetches' = Append(fetches, files_url(call.video, call.entry_id,
                                                        episode_number))
                /\ UNCHANGED <<pc, last, contents, data>>
           ELSE /\ call' = [call EXCEPT !.episode_number = episode_number]
                /\ data' = IF no_data THEN <<>> ELSE Val(fetch.result)
                /\ pc' = "filter"
                /\ UNCHANGED <<fetch, last, contents, fetches>>
    /\ UNCHANGED <<config, cache, requests, dl, calls, history, failed, match>>

\* _query filters the listing and list_subtitles returns (lines 165-210)
query_filter ==
    /\ pc = "filter"
    /\ returned(Some(filter_subtitles(data, call.video, call.anilist_id,
                                      call.episode_number, enable_archives,
                                      enable_ai_subs)))
    /\ UNCHANGED <<config, cache, call, data, fetch, requests, dl, calls, history,
                   fetches, failed, match>>

----------------------------------------------------------------------------
(* JimakuProvider.download_subtitle and _is_archive *)

\* the bytes of a download: what rarfile.is_rarfile and zipfile.is_zipfile
\* say of them
Bytes(rar, zip) == [is_rarfile |-> rar, is_zipfile |-> zip]
DownloadBodies == { Bytes(r, z) : r \in BOOLEAN, z \in BOOLEAN }
DownloadStatuses == {200, 304, 404, 500}

\* _is_archive: the archive handle, or None
is_archive(bytes) ==
    IF bytes.is_rarfile THEN Some([format |-> "rar", bytes |-> bytes])
    ELSE IF bytes.is_zipfile THEN Some([format |-> "zip", bytes |-> bytes])
    ELSE None

\* subliminal_patch.providers.utils.get_subtitle_from_archive
get_subtitle_from_archive(archive, episode) ==
    [member_of |-> archive, episode |-> episode]

\* download_subtitle after session.get answered (lines 215-224): how the call
\* ends and the content attribute it leaves
download_result(subtitle, status, bytes, before) ==
    LET archive == is_archive(bytes)
    IN  IF raises_for_status(status)
        THEN [outcome |-> "HTTPError", content |-> before]
        ELSE IF ~IsNone(archive)
        THEN IF is_episode(subtitle.video)
             THEN [outcome |-> "returned",
                   content |-> Some(get_subtitle_from_archive(
                                      Val(archive), subtitle.video.episode))]
             ELSE [outcome |-> "AttributeError", content |-> before]
        ELSE IF endswith_any(subtitle.subtitle_url, {ExtZip, ExtRar})
        THEN [outcome |-> "returned", content |-> before]
        ELSE [outcome |-> "returned", content |-> Some(bytes)]

NoDownload ==
    [index |-> 0, status_code |-> 0, bytes |-> Bytes(FALSE, FALSE),
     before |-> None, outcome |-> "none"]

download_subtitle ==
    /\ pc = "idle"
    /\ calls < MaxCalls
    /\ ~IsNone(last.value)
    /\ \E i \in 1..Len(Val(last.value)), status \in DownloadStatuses,
          bytes \in DownloadBodies :
         LET r == download_result(Val(last.value)[i], status, bytes, contents[i])
         IN  /\ dl' = [index |-> i, status_code |-> status, bytes |-> bytes,
                       before |-> contents[i], outcome |-> r.outcome]
             /\ contents' = [contents EXCEPT ![i] = r.content]
    /\ calls' = calls + 1
    /\ UNCHANGED <<config, cache, pc, call, data, fetch, requests, last, history,
                   fetches, failed, match>>

----------------------------------------------------------------------------
(* The provider in use *)

NoResult == [op |-> "none", outcome |-> "none", value |-> None]

\* no get_matches call is in the model
NoMatch == [pc |-> "none"]

Init ==
    /\ enable_archives \in BOOLEAN
    /\ enable_ai_subs \in BOOLEAN
    /\ episode_number_override \in BOOLEAN
    /\ cache = <<>>
    /\ pc = "idle"
    /\ call = NoCall
    /\ data = <<>>
    /\ fetch = NoFetch
    /\ requests = <<>>
    /\ last = NoResult
    /\ contents = <<>>
    /\ dl = NoDownload
    /\ calls = 0
    /\ history = {}
    /\ fetches = <<>>
    /\ failed = {}
    /\ match = NoMatch

Next ==
    \/ list_subtitles
    \/ get_jimaku_response_cached
    \/ get_jimaku_response_loop
    \/ query_search_done
    \/ query_files_done
    \/ query_filter
    \/ download_subtitle

Spec == Init /\ [][Next]_vars

----------------------------------------------------------------------------
(* The filter on its own: _query at line 165, for every listing *)

InitFilter ==
    /\ enable_archives \in BOOLEAN
    /\ enable_ai_subs \in BOOLEAN
    /\ episode_number_override = FALSE
    /\ \E video \in Videos, entry \in Entries, items \in Listings :
         LET search == assemble_jimaku_search_url(video, media_name(video))
             episode_number == IF is_episode(video) THEN Some(video.episode)
                               ELSE None
             files == files_url(video, entry.id, episode_number)
         IN  /\ call = [video |-> video, entry_id |-> entry.id,
                        anilist_id |-> entry.anilist_id,
                        episode_number |-> episode_number, retry_count |-> 2]
             /\ data = items
             /\ cache = (search :> Some(<<entry>>)) @@ (files :> Some(items))
             /\ fetch = [pc |-> "ret", path |-> files, retry_count |-> 0,
                         responses |-> <<>>, sleeps |-> <<>>,
                         outcome |-> "returned", result |-> Some(items)]
             /\ requests = <<search, files>>
             /\ fetches = <<search, files, files>>
             /\ history = { [path |-> search, value |-> Some(<<entry>>)],
                            [path |-> files, value |-> Some(items)] }
    /\ pc = "filter"
    /\ last = NoResult
    /\ contents = <<>>
    /\ dl = NoDownload
    /\ calls = 1
    /\ failed = {}
    /\ match = NoMatch

NextFilter == query_filter

SpecFilter == InitFilter /\ [][NextFilter]_vars

----------------------------------------------------------------------------
(* The fetcher on its own: _get_jimaku_response called by _query with any
   path, on a store that is empty or holds the path *)

\* the values the store may hold for a path
StoredValues(kind) ==
    {None} \cup (IF kind = "search" THEN { Some(<<e>>) : e \in ServerEntries }
                 ELSE { Some(l) : l \in ServerListings })

InitFetch ==
    /\ enable_archives \in BOOLEAN
    /\ enable_ai_subs = FALSE
    /\ episode_number_override = FALSE
    /\ \E video \in Videos, entry \in ServerEntries, kind \in {"search", "files"} :
         LET search == assemble_jimaku_search_url(video, media_name(video))
             episode_number == IF is_episode(video) THEN Some(video.episode)
                               ELSE None
             files == files_url(video, entry.id, episode_number)
             path == IF kind = "search" THEN search ELSE files
             found == (search :> Some(<<entry>>))
         IN  /\ call = [video |-> video,
                        entry_id |-> IF kind = "search" THEN 0 ELSE entry.id,
                        anilist_id |-> IF kind = "search" THEN None
                                       ELSE entry.anilist_id,
                        episode_number |-> episode_number,
                        retry_count |-> IF kind = "search" THEN 0 ELSE 1]
             /\ pc = kind
             /\ fetch = enter_fetch(path)
             /\ fetches = IF kind = "search" THEN <<search>> ELSE <<search, files>>
             /\ \E stored \in {<<>>} \cup { path :> v : v \in StoredValues(kind) } :
                  /\ cache = IF kind = "search" THEN stored ELSE stored @@ found
                  /\ history =
                       { [path |-> q, value |-> cache[q]] : q \in DOMAIN cache }
    /\ data = <<>>
    /\ requests = <<>>
    /\ last = NoResult
    /\ contents = <<>>
    /\ dl = NoDownload
    /\ calls = 1
    /\ failed = {}
    /\ match = NoMatch

NextFetch ==
    \/ get_jimaku_response_cached
    \/ get_jimaku_response_loop

\* the fetcher is not suspended for ever: session.get answers (its timeout is
\* finite) and time.sleep returns
SpecFetch ==
    /\ InitFetch /\ [][NextFetch]_vars
    /\ WF_vars(get_jimaku_response_cached) /\ WF_vars(get_jimaku_response_loop)

----------------------------------------------------------------------------
(* JimakuSubtitle.get_matches, lines 48-81 *)

\* the attributes of a video that get_matches reads
MatchEpisode(series, alternative_series, season, year, group) ==
    [type |-> "Episode", name |-> series, alternative_names |-> alternative_series,
     season |-> season, year |-> year, release_group |-> group]

MatchMovie(title, alternative_titles, year, group) ==
    [type |-> "Movie", name |-> title, alternative_names |-> alternative_titles,
     season |-> None, year |-> year, release_group |-> group]

\* a video that is neither an Episode nor a Movie
OtherVideo ==
    [type |-> "Video", name |-> <<>>, alternative_names |-> <<>>,
     season |-> None, year |-> None, release_group |-> None]

RELEASE_GROUP == <<"r","e","l","e","a","s","e","_","g","r","o","u","p">>
SOURCE == <<"s","o","u","r","c","e">>
TITLE == <<"t","i","t","l","e">>
TYPE == <<"t","y","p","e">>
EPISODE == <<"e","p","i","s","o","d","e">>
MOVIE == <<"m","o","v","i","e">>
Web == <<"W","e","b">>

MatchGroups == {None, Some(GroupA), Some(Web), Some(<<"y">>)}

MatchVideos ==
    { MatchEpisode(<<"A","b">>, alt, season, year, group) :
        alt \in {<<>>, << <<"a",".","b">> >>}, season \in {None, Some(1), Some(2)},
        year \in {None, Some(2020)}, group \in MatchGroups }
    \cup { MatchMovie(<<"M","o">>, <<>>, year, group) :
             year \in {None, Some(2020)}, group \in MatchGroups }
    \cup { OtherVideo }

\* the videos a subtitle was listed for
SubtitleVideos ==
    { MatchEpisode(<<"a","-","b">>, <<>>, None, Some(2020), None),
      MatchEpisode(<<"A","c">>, <<>>, Some(2), None, None),
      MatchMovie(<<"m","o">>, <<>>, Some(2020), None),
      MatchMovie(<<"N","o">>, <<>>, None, None) }

\* one entry of the dict guessit returns
Token(key, value) == [key |-> key, value |-> value]

\* what guessit finds in a file name, in the order of the dict, apart from
\* the 'type' it is told
Guesses ==
    { <<Token(TITLE, <<"A","b">>)>>,
      <<Token(RELEASE_GROUP, GroupA), Token(TITLE, <<"A","b">>)>>,
      <<Token(TITLE, <<"A","b">>), Token(SOURCE, Web)>>,
      <<Token(RELEASE_GROUP, GroupA), Token(TITLE, <<"A","b">>),
        Token(SOURCE, Web)>>,
      <<Token(RELEASE_GROUP, Web), Token(TITLE, <<"A","b">>)>> }

\* guessit(subtitle_filename, {'type': video_type}): the tokens of the file
\* name and the type that was asked for
guessit(tokens, video_type) == Append(tokens, Token(TYPE, video_type))

\* subliminal.utils.sanitize: "'" dropped, the characters "-:()." turned into
\* spaces, runs of spaces collapsed, the ends stripped, lower case
RECURSIVE collapse(_)
collapse(text) ==
    IF Len(text) = 0 THEN <<>>
    ELSE IF text[1] = " " /\ (Len(text) = 1 \/ text[2] = " ")
    THEN collapse(Tail(text))
    ELSE <<text[1]>> \o collapse(Tail(text))

sanitize(text) ==
    LET kept == SelectSeq(text, LAMBDA c : c # "'")
        spaced == [i \in 1..Len(kept) |->
                     IF kept[i] \in {"-", ":", "(", ")", "."} THEN " " ELSE kept[i]]
        joined == collapse(spaced)
        stripped == IF Len(joined) > 0 /\ joined[1] = " " THEN Tail(joined)
                    ELSE joined
    IN  lower(stripped)

\* the truth value of a str
truthy(text) == Len(text) > 0

\* the truth value of an optional int
truthy_int(o) == ~IsNone(o) /\ Val(o) # 0

\* lines 52-55 and 59-61: sanitize(video.X) and sanitize(self.video.X) in
\* (sanitize(name) for name in [video.X] + video.alternative_X)
name_matches(self_video, video) ==
    LET names == <<video.name>> \o video.alternative_names
    IN  /\ truthy(sanitize(video.name))
        /\ \E i \in 1..Len(names) : sanitize(self_video.name) = sanitize(names[i])

\* line 57
season_matches(self_video, video) ==
    \/ truthy_int(video.season) /\ IsNone(self_video.season)
    \/ truthy_int(video.season) /\ video.season = self_video.season

\* line 66
year_matches(self_video, video) ==
    truthy_int(video.year) /\ video.year = self_video.year

\* lines 75-79: "for g in guess" goes through the keys of the dict, so g[0]
\* and g[1] are the first and the second character of a key; the loop
\* breaks at the first key that adds the match
release_group_matches(video, guess) ==
    \E i \in 1..Len(guess) :
        LET g == guess[i].key
        IN  /\ (<<g[1]>> = RELEASE_GROUP \/ truthy(SOURCE))
            /\ video.release_group = Some(<<g[2]>>)

\* get_matches: how the call ends and the set it returns
get_matches_result(self_video, video, tokens) ==
    IF video.type \notin {"Episode", "Movie"}
    THEN [outcome |-> "ValueError", matches |-> {}]
    ELSE LET video_type == IF video.type = "Movie" THEN MOVIE ELSE EPISODE
             guess == guessit(tokens, video_type)
         IN  [outcome |-> "returned",
              matches |->
                  (IF video.type = "Episode" /\ name_matches(self_video, video)
                   THEN {"series"} ELSE {})
                  \cup (IF video.type = "Episode" /\ season_matches(self_video, video)
                        THEN {"season"} ELSE {})
                  \cup (IF video.type = "Movie" /\ name_matches(self_video, video)
                        THEN {"title"} ELSE {})
                  \cup (IF year_matches(self_video, video) THEN {"year"} ELSE {})
                  \cup {IF video.type = "Movie" THEN "movie" ELSE "episode"}
                  \cup (IF release_group_matches(video, guess)
                        THEN {"release_group"} ELSE {})]

\* subtitle.get_matches(video) is called
get_matches ==
    /\ match.pc = "call"
    /\ LET r == get_matches_result(match.self_video, match.video, match.tokens)
       IN  match' = [match EXCEPT !.pc = "done", !.outcome = r.outcome,
                                  !.matches = r.matches]
    /\ UNCHANGED <<config, cache, pc, call, data, fetch, requests, last, contents,
                   dl, calls, history, fetches, failed>>

\* a subtitle listed for self_video whose file name guessit reads as tokens,
\* about to be matched against video
InitMatches ==
    /\ enable_archives = FALSE
    /\ enable_ai_subs = FALSE
    /\ episode_number_override = FALSE
    /\ cache = <<>>
    /\ pc = "idle"
    /\ call = NoCall
    /\ data = <<>>
    /\ fetch = NoFetch
    /\ requests = <<>>
    /\ last = NoResult
    /\ contents = <<>>
    /\ dl = NoDownload
    /\ calls = 0
    /\ history = {}
    /\ fetches = <<>>
    /\ failed = {}
    /\ \E self_video \in SubtitleVideos, video \in MatchVideos, tokens \in Guesses :
         /\ video.type \in {"Episode", "Movie"} => self_video.type = video.type
         /\ match = [pc |-> "call", self_video |-> self_video, video |-> video,
                     tokens |-> tokens, outcome |-> "none", matches |-> {}]

NextMatches == get_matches

SpecMatches == InitMatches /\ [][NextMatches]_vars

----------------------------------------------------------------------------
(* The claims *)

FetchEnded == fetch.pc \in {"ret", "raised"}
Is2xx(status) == status >= 200 /\ status < 300
HasData(body) == body.kind = "list" /\ Len(body.items) > 0
ListEnded == pc = "idle" /\ last.op = "list_subtitles"
Listed == IF IsNone(last.value) THEN <<>> ELSE Val(last.value)
KeptNames == { Listed[j].subtitle_filename : j \in 1..Len(Listed) }

\* C1: a fetch whose first answer is 429 is retried after the sleep: it sends a
\* second request, and when that one is answered 2xx with a non-empty,
\* non-error body the fetch returns that body and raises nothing.
C1_RetriedAfter429 ==
    (FetchEnded /\ Len(fetch.responses) >= 1
                /\ fetch.responses[1].status_code = 429)
    => /\ Len(fetch.sleeps) >= 1
       /\ Len(fetch.responses) >= 2
       /\ (Is2xx(fetch.responses[2].status_code) /\ HasData(fetch.responses[2].body))
          => /\ fetch.outcome = "returned"
             /\ fetch.result = Some(fetch.responses[2].body.items)

\* C2: a fetch answered 429 at every attempt sends exactly
\* api_ratelimit_backoff_limit requests and ends with APIThrottled, and
\* APIThrottled ends a fetch in no other situation.
C2_ThrottledAfterLimit ==
    FetchEnded
    => LET all429 == \A i \in 1..Len(fetch.responses) :
                        fetch.responses[i].status_code = 429
       IN  /\ (Len(fetch.responses) >= 1 /\ all429)
              => /\ Len(fetch.responses) = api_ratelimit_backoff_limit
                 /\ fetch.outcome = "APIThrottled"
           /\ fetch.outcome = "APIThrottled"
              => /\ all429
                 /\ Len(fetch.responses) = api_ratelimit_backoff_limit

\* C3: with the alternate numbering enabled, an episode's _query does not give
\* up on an empty answer to the file-list request with the regular number: the
\* file-list fetch it ends on for lack of data is the one with the alternate
\* episode number.
C3_RetriesWithAlternateNumber ==
    (ListEnded /\ last.outcome = "returned" /\ episode_number_override
       /\ is_episode(call.video) /\ fetch.path.kind = "files"
       /\ fetch.pc = "ret" /\ falsy(fetch.result))
    => /\ fetch.path = files_url(call.video, call.entry_id,
                                 Some(call.video.series_anidb_episode_no))
       /\ last.value = Some(<<>>)

\* C4: with archives disabled the candidate set is empty only if the listing
\* has no ".zip" or ".rar" file that passes the AI-origin and the size policy.
C4_ArchivesKeptWhenNothingElse ==
    (ListEnded /\ Len(data) > 0 /\ ~enable_archives /\ Len(Listed) = 0)
    => ~\E i \in 1..Len(data) :
            /\ endswith_any(data[i].name, {ExtZip, ExtRar})
            /\ (enable_ai_subs \/ ~contains(lower(data[i].name), AiMarker))
            /\ (IsNone(data[i].size) \/ Val(data[i].size) >= 500)

\* the tuple the synthesized id is said to be a function of
IdTuple(entry, video) ==
    << IF IsNone(entry.anilist_id) THEN entry.id ELSE Val(entry.anilist_id),
       IF is_episode(video) THEN video.episode ELSE 0,
       video.release_group >>

\* C5: the id of a candidate equals the id synthesized for another (entry,
\* video) exactly when the two have the same tuple (external id or else entry
\* id, episode number or 0, release group).
C5_IdsDistinguishTuples ==
    (ListEnded /\ Len(data) > 0)
    => \A i \in 1..Len(Listed) : \A e \in Entries, v \in Videos :
          (IdTuple([id |-> call.entry_id, anilist_id |-> call.anilist_id],
                   call.video) = IdTuple(e, v))
          <=> (Listed[i].subtitle_id
                 = subtitle_id(e.anilist_id, IdTuple(e, v)[2], v.release_group))

\* every file of the listing falls to the AI-origin, size or archive policy
AllDiscarded ==
    \A i \in 1..Len(data) :
        \/ ~enable_ai_subs /\ contains(lower(data[i].name), AiMarker)
        \/ ~IsNone(data[i].size) /\ Val(data[i].size) < 500
        \/ endswith(data[i].name, Ext7z)

\* C6: list_subtitles returns the empty sequence when the search or the
\* file-list fetch yields no data or when every listed file is discarded, and
\* the only exceptions that leave it are the fetcher's AuthenticationError,
\* HTTPError and APIThrottled.
C6_AbsenceReturnsEmpty ==
    ListEnded
    => /\ last.outcome = "returned" => ~IsNone(last.value)
       /\ (fetch.pc = "ret" /\ falsy(fetch.result))
          => (last.outcome = "returned" /\ last.value = Some(<<>>))
       /\ (fetch.pc = "ret" /\ Len(data) > 0 /\ AllDiscarded)
          => (last.outcome = "returned" /\ last.value = Some(<<>>))
       /\ last.outcome # "returned"
          => /\ last.outcome \in {"AuthenticationError", "HTTPError", "APIThrottled"}
             /\ fetch.pc = "raised"
             /\ fetch.outcome = last.outcome

C6_Witness ==
    /\ ListEnded /\ last.outcome = "returned" /\ last.value = Some(<<>>)
    /\ Len(data) > 0 /\ AllDiscarded

FetchFinishes ==
    fetch.pc \in {"enter", "loop"} /\ fetch'.pc \in {"ret", "raised"}

\* C8: once a fetch of a path has returned a value (a body or None), every
\* later fetch of that path returns the same value and sends no request,
\* whatever the server would answer and whatever was fetched in between.
C8_Memoized ==
    [][ (FetchFinishes /\ \E h \in history : h.path = fetch.path)
        => /\ fetch'.pc = "ret"
           /\ \A h \in history : h.path = fetch.path => fetch'.result = h.value
           /\ requests' = requests
           /\ history' = history ]_vars

C8_Witness ==
    /\ calls = 2 /\ pc = "search" /\ fetch.pc = "ret"
    /\ Len(fetch.responses) = 0 /\ Len(requests) = 0
    /\ IsNone(fetch.result)
    /\ \E h \in history : h.path = fetch.path /\ IsNone(h.value)

\* C9: a download answered 2xx raises nothing and ends in one of three ways:
\* content is the member extracted from the body when the body is a
\* recognized archive; content is left as it was when the body is no archive
\* and the URL ends in ".zip" or ".rar"; content is the raw body otherwise.
C9_SuccessfulDownloadOutcomes ==
    (dl.outcome # "none" /\ Is2xx(dl.status_code))
    => LET subtitle == Listed[dl.index]
           after == contents[dl.index]
           archive == dl.bytes.is_rarfile \/ dl.bytes.is_zipfile
       IN  /\ dl.outcome = "returned"
           /\ IF archive
              THEN ~IsNone(after) /\ Val(after) # dl.bytes
                   /\ Val(after).member_of.bytes = dl.bytes
              ELSE IF endswith_any(subtitle.subtitle_url, {ExtZip, ExtRar})
              THEN after = dl.before
              ELSE after = Some(dl.bytes)

\* C10: a listed file that passes the AI-origin and the archive policy is
\* among the candidates iff it does not report a size below 500: a file of
\* size 499 is discarded, one of size 500 or without a size is kept.
C10_SizePolicy ==
    (ListEnded /\ Len(data) > 0)
    => \A i \in 1..Len(data) :
         LET item == data[i]
             undersized == ~IsNone(item.size) /\ Val(item.size) < 500
             ai_ok == enable_ai_subs \/ ~contains(lower(item.name), AiMarker)
             archive_ok ==
                 ~endswith_any(item.name,
                               archive_formats_blacklist(data, enable_archives))
         IN  /\ undersized => item.name \notin KeptNames
             /\ (~undersized /\ ai_ok /\ archive_ok) => item.name \in KeptNames

C10_Witness ==
    /\ ListEnded /\ Len(data) = 2
    /\ \E i, j \in 1..Len(data) :
         /\ data[i].size = Some(499) /\ data[i].name \notin KeptNames
         /\ data[j].size = Some(500) /\ data[j].name \in KeptNames

\* the name holds the letters of "whisperai" in a row, in any letter case
Marked(name) ==
    \E i \in 1..Len(name) :
        /\ i + Len(AiMarker) - 1 <= Len(name)
        /\ \A k \in 1..Len(AiMarker) :
              name[i + k - 1] = AiMarker[k] \/ name[i + k - 1] = Upper[
                  CHOOSE u \in 1..26 : Lower[u] = AiMarker[k]]

Undersized(item) == ~IsNone(item.size) /\ Val(item.size) < 500
IsZipOrRar(name) == endswith(name, ExtZip) \/ endswith(name, ExtRar)

\* C11: a listed file whose name holds the AI marker in any letter case is
\* never a candidate when AI subtitles are disabled, and is a candidate when
\* they are enabled and it passes the size and the archive policy; with AI
\* subtitles disabled no candidate's filename holds the marker.
C11_AiPolicy ==
    (ListEnded /\ Len(data) > 0)
    => /\ \A i \in 1..Len(data) :
            LET item == data[i]
                archive_ok ==
                    ~endswith_any(item.name,
                                  archive_formats_blacklist(data, enable_archives))
            IN  Marked(item.name)
                => /\ ~enable_ai_subs => item.name \notin KeptNames
                   /\ (enable_ai_subs /\ ~Undersized(item) /\ archive_ok)
                      => item.name \in KeptNames
       /\ ~enable_ai_subs => \A n \in KeptNames : ~Marked(n)

C11_Witness ==
    /\ ListEnded /\ ~enable_ai_subs /\ Len(data) = 2 /\ Len(Listed) = 1
    /\ \E i \in 1..Len(data) :
          /\ data[i].name = AiMixed \o ExtSrt
          /\ data[i].name \notin KeptNames

\* the listed files that became candidates, in the order of the listing
Survivors ==
    LET Survived(item) == item.name \in KeptNames
    IN  SelectSeq(data, Survived)

\* C12: filtering the files that survived the filter once more, with the same
\* flags and with the relaxation decided anew, gives the same candidates in
\* the same order.
C12_FilterIdempotent ==
    (ListEnded /\ Len(data) > 0)
    => filter_subtitles(Survivors, call.video, call.anilist_id,
                        call.episode_number, enable_archives, enable_ai_subs)
       = Listed

C12_Witness ==
    /\ ListEnded /\ ~enable_archives /\ Len(data) = 2 /\ Len(Listed) = 1
    /\ \A i \in 1..Len(data) : IsZipOrRar(data[i].name)

\* C13: with archives disabled and every listed file ending in ".zip" or
\* ".rar", every listed file that passes the AI-origin and the size policy is
\* a candidate.
C13_RelaxedWhenOnlyArchives ==
    (ListEnded /\ Len(data) > 0 /\ ~enable_archives
       /\ \A i \in 1..Len(data) : IsZipOrRar(data[i].name))
    => \A i \in 1..Len(data) :
          ((enable_ai_subs \/ ~Marked(data[i].name)) /\ ~Undersized(data[i]))
          => data[i].name \in KeptNames

C13_Witness ==
    /\ ListEnded /\ ~enable_archives /\ Len(data) = 2 /\ Len(Listed) = 2
    /\ \A i \in 1..Len(data) : endswith(data[i].name, ExtZip)

\* C14: no candidate has a filename ending in ".7z", whatever the listing and
\* the flags.
C14_Never7z ==
    ListEnded => \A n \in KeptNames : ~endswith(n, Ext7z)

C14_Witness ==
    /\ ListEnded /\ ~enable_archives /\ Len(Listed) = 1
    /\ \E i \in 1..Len(data) : endswith(data[i].name, Ext7z)

\* C15: a 2xx answer whose body is empty or carries an 'error' field ends the
\* fetch with None after that one request, with no exception, no sleep and
\* no retry; a 2xx answer with a non-empty body without error is the result.
EmptyOrError(body) ==
    \/ body.kind = "list" /\ Len(body.items) = 0
    \/ body.kind = "dict" /\ (body.keys = {} \/ "error" \in body.keys)

C15_NoResultOn2xx ==
    \A i \in 1..Len(fetch.responses) :
        LET resp == fetch.responses[i]
        IN  Is2xx(resp.status_code)
            => /\ fetch.pc = "ret" /\ fetch.outcome = "returned"
               /\ Len(fetch.responses) = 1
               /\ fetch.retry_count = 1
               /\ fetch.sleeps = <<>>
               /\ IF EmptyOrError(resp.body) THEN IsNone(fetch.result)
                  ELSE fetch.result = Some(resp.body.items)

C15_Witness ==
    /\ fetch.pc = "ret" /\ IsNone(fetch.result)
    /\ Len(fetch.responses) = 1
    /\ fetch.responses[1].status_code = 200
    /\ fetch.responses[1].body = ErrorBody
    /\ pc = "files"

\* C16: the first fetch of a list_subtitles call is its only search fetch;
\* a file-list fetch follows only a search that returned data; a search that
\* returned no data or raised ends the call with no file-list fetch and no
\* file-list request.
SearchGaveData ==
    \E h \in history : h.path = fetches[1] /\ ~IsNone(h.value) /\ Len(Val(h.value)) > 0

C16_SearchThenFiles ==
    /\ (pc # "idle" \/ ListEnded) => Len(fetches) >= 1
    /\ \A i \in 1..Len(fetches) : (fetches[i].kind = "search") = (i = 1)
    /\ Len(fetches) >= 2 => SearchGaveData
    /\ (fetch.path.kind = "search" /\ FetchEnded
        /\ (fetch.pc = "raised" \/ IsNone(fetch.result) \/ Len(Val(fetch.result)) = 0))
       => /\ Len(fetches) = 1
          /\ \A i \in 1..Len(requests) : requests[i].kind = "search"
    /\ \A i \in 1..Len(requests) :
         \/ requests[i] = fetches[1] /\ i = 1
         \/ requests[i].kind = "files" /\ SearchGaveData

C16_Witness ==
    /\ ListEnded /\ last.outcome = "returned"
    /\ Len(fetches) = 3 /\ Len(requests) = 2
    /\ requests[1].kind = "search" /\ requests[2].kind = "files"

\* C17: a running call of the fetcher ends, with a value or an exception,
\* and no call sends more than api_ratelimit_backoff_limit requests, whatever
\* the server answers.
FetchRunning == fetch.pc \in {"enter", "loop"}

C17_FetchTerminates ==
    /\ [](Len(fetch.responses) <= api_ratelimit_backoff_limit)
    /\ FetchRunning ~> FetchEnded

C17_Witness ==
    /\ fetch.pc = "raised" /\ fetch.outcome = "HTTPError"
    /\ Len(fetch.responses) = 1 /\ fetch.responses[1].status_code = 429
    /\ fetch.responses[1].reset_after = Some(10)
    /\ fetch.sleeps = <<api_ratelimit_max_delay_seconds>>
    /\ fetch.path.kind = "files"

\* C18: a step in which a fetch of a path raises leaves the store as it was,
\* with no entry for that path; and a fetch of a path with no entry sends a
\* request when it goes on, also after an earlier fetch of the path raised.
C18_FailuresNotMemoized ==
    [][ /\ (FetchFinishes /\ fetch'.pc = "raised")
           => /\ cache' = cache
              /\ fetch.path \notin DOMAIN cache'
              /\ fetch.path \in failed'
        /\ (fetch.pc = "enter" /\ fetch.path \in failed
            /\ fetch.path \notin DOMAIN cache /\ fetch' # fetch)
           => /\ requests' = Append(requests, fetch.path)
              /\ Len(fetch'.responses) = 1 ]_vars

C18_Witness ==
    /\ fetch.pc = "ret" /\ fetch.path \in failed
    /\ Len(fetch.responses) = 1
    /\ ~IsNone(fetch.result)
    /\ cache # <<>> /\ DOMAIN cache # {fetch.path}

\* C19: the first list_subtitles call of a provider that listed files has
\* sent two requests, the search and then the file list, although _query
\* fetched the file list twice.
C19_TwoRequests ==
    (ListEnded /\ calls = 1 /\ last.outcome = "returned" /\ Len(data) > 0)
    => /\ Len(requests) = 2
       /\ requests[1].kind = "search"
       /\ requests[2].kind = "files"
       /\ fetches = <<requests[1], requests[2], requests[2]>>

C19_Witness ==
    /\ ListEnded /\ calls = 1 /\ last.outcome = "returned" /\ Len(data) > 0
    /\ Len(requests) = 2
    /\ Len(fetch.responses) = 0
    /\ \A h \in history : ~IsNone(h.value)

\* C20: get_matches puts 'release_group' in the set it returns exactly when
\* the release-group token or the source token that guessit found in the
\* file name equals the release group of the video.
GuessedGroupOrSource ==
    { match.tokens[i].value :
        i \in { j \in 1..Len(match.tokens) :
                  match.tokens[j].key \in {RELEASE_GROUP, SOURCE} } }

C20_ReleaseGroupMatch ==
    (match.pc = "done" /\ match.outcome = "returned")
    => ("release_group" \in match.matches
        <=> \E t \in GuessedGroupOrSource : match.video.release_group = Some(t))

=============================================================================
